---- MODULE Spec2Model ----
(***************************************************************************)
(* Model of backend/server.js of SecUrAuditz: the Firestore collections    *)
(* frameworks, controls, audits and audits/<id>/responses, and the Express *)
(* routes that read and write them.  A route is an async handler: every    *)
(* `await` on the store is one atomic step of the request, and the steps   *)
(* of concurrent requests interleave.                                      *)
(***************************************************************************)
EXTENDS Integers, Sequences, FiniteSets, TLC

\* ------------------------------------------------------------------ bounds
\* Largest number of questions a seeded control carries, and the longest
\* question_responses array a submission carries.
MaxQuestions == 1
\* getTimestamp() values handed out in one behaviour (the clock is capped).
MaxTime == 4
\* Number of audit documents db.collection('audits').add can create.
MaxAudits == 1
\* Number of frameworks of one domain type in the runs on a large catalog.
MaxFrameworks == 11
\* Largest total_controls_in_audit for which the progress computation is
\* tabulated on its own.
MaxTotal == 40
MaxLargeTotal == 201

\* ------------------------------------------------------- program constants
\* const chunkSize = 10 (every chunked 'in' query on framework_id).
chunkSize == 10

\* --------------------------------------------------------------- JS values
Null == "null"
Undefined == "undefined"
EmptyString == ""
\* JavaScript truthiness of the values the model uses (strings, null, undefined).
Truthy(v) == v \notin {Null, Undefined, EmptyString}
\* a || b
OrElse(a, b) == IF Truthy(a) THEN a ELSE b

\* ---------------------------------------------------------------- universes
\* Request slots: at most this many requests are in flight at once.
Procs == {"r1", "r2"}
\* Control ids in document-id order (the order a query snapshot lists them in).
ControlOrder == <<"c1", "c2">>
ControlIds == {ControlOrder[k] : k \in 1..Len(ControlOrder)}
AuditIds == 1..MaxAudits
DomainTypes == {"Cloud", "AI"}
SelectedOptions == {Null, EmptyString, "a"}
TerminalStatuses == {"Yes", "Partial", "No", "Not Applicable"}

RECURSIVE SeqsUpTo(_, _)
SeqsUpTo(S, n) ==
  IF n = 0 THEN {<<>>}
  ELSE LET shorter == SeqsUpTo(S, n - 1)
       IN shorter \cup {Append(s, x) : s \in {t \in shorter : Len(t) = n - 1}, x \in S}

\* question_responses arrays of a request body: one entry per element, each
\* entry represented by its selected_option.  The arrays submitted are the
\* empty one and, for every length, those that give every question the same
\* selected_option, a string.
QuestionResponseInputs ==
  {s \in SeqsUpTo(SelectedOptions \ {Null}, MaxQuestions) : \A j, k \in 1..Len(s) : s[j] = s[k]}

VARIABLES
  frameworks,   \* collection 'frameworks': sequence of [id, type] in document-id order
  controls,     \* collection 'controls': control id -> document
  audits,       \* collection 'audits': audit id -> document
  responses,    \* sub-collections audits/<id>/responses: audit id -> control id -> document
  clock,        \* next value of admin.firestore.Timestamp.now()
  req,          \* the requests in flight: slot -> handler position and locals
  last,         \* history: the request answered last, no other having arrived since
  created,      \* history: audit id -> ids of the controls found when it was created
  quiesced      \* history: audit id -> a read ran to completion after the last write request

vars == <<frameworks, controls, audits, responses, clock, req, last, created, quiesced>>

\* A document that does not exist (doc.exists is false).
NoDoc == [exists |-> FALSE]
Idle == [pc |-> "idle"]
NoRequest == [op |-> "none"]

Busy(p) == req[p].pc # "idle"
NoneInFlight == \A p \in Procs : ~Busy(p)
OthersIdle(p) == \A q \in Procs \ {p} : ~Busy(q)

\* ------------------------------------------------------------ pure helpers
Min(a, b) == IF a < b THEN a ELSE b

\* The three summary fields of an audit document.
Summary(doc) ==
  [overall_score |-> doc.overall_score,
   overall_status |-> doc.overall_status,
   completed_controls_in_audit |-> doc.completed_controls_in_audit]

\* db.collection('frameworks').where('type', '==', type): the ids, in order.
FrameworksOfType(type) ==
  LET hits == SelectSeq(frameworks, LAMBDA f : f.type = type)
  IN [k \in 1..Len(hits) |-> hits[k].id]

\* frameworkIds.slice(i, i + chunkSize)
Chunk(ids, i) == SubSeq(ids, i + 1, Min(i + chunkSize, Len(ids)))

SeqRange(s) == {s[k] : k \in 1..Len(s)}

\* db.collection('controls').where('framework_id', 'in', chunk).get(), mapped to
\* {id, data}: the matching control documents in document-id order.
QueryControls(chunk) ==
  LET hits == SelectSeq(ControlOrder,
                 LAMBDA c : controls[c].exists /\ controls[c].framework_id \in SeqRange(chunk))
  IN [k \in 1..Len(hits) |-> [id |-> hits[k], data |-> controls[hits[k]]]]

\* new Map(allControlsForAudit.map(c => [c.id, c.data])): a later entry of the
\* list replaces an earlier one with the same id.
ControlDefinitionsMap(list) ==
  [c \in {list[k].id : k \in 1..Len(list)} |->
     list[CHOOSE k \in 1..Len(list) :
            list[k].id = c /\ \A j \in (k + 1)..Len(list) : list[j].id # c].data]

\* controlDefinition.questionnaires?.length || 0
NumQuestions(def) == def.questionnaires

\* question_responses.filter(qr => qr.selected_option).length
AnsweredCount(question_responses) == Len(SelectSeq(question_responses, Truthy))

\* The completeness test both reconciliations apply to one stored response.
IsComplete(def, res) ==
  /\ NumQuestions(def) > 0
  /\ AnsweredCount(res.question_responses) = NumQuestions(def)
  /\ res.compliance_status \in TerminalStatuses

\* A loop that counts the responses failing the completeness test instead.
CountsIncompleteControls(defs, snapshot) ==
  Cardinality({c \in DOMAIN snapshot :
                 /\ snapshot[c].exists
                 /\ snapshot[c].control_id \in DOMAIN defs
                 /\ ~IsComplete(defs[snapshot[c].control_id], snapshot[c])})

\* The loop over responsesSnapshot.docs: the responses whose control_id has a
\* definition in the map and that pass the completeness test.
CompletedControlsCount(defs, snapshot) ==
  Cardinality({c \in DOMAIN snapshot :
                 /\ snapshot[c].exists
                 /\ snapshot[c].control_id \in DOMAIN defs
                 /\ IsComplete(defs[snapshot[c].control_id], snapshot[c])})

\* JS numbers are IEEE-754 doubles.  A positive double is kept as its 53-bit
\* significand in five limbs <<top, l1, l2, l3, l4>> (l1..l4 of 13 bits each, the
\* significand being top * 2^52 + l1 * 2^39 + l2 * 2^26 + l3 * 2^13 + l4) and the
\* exponent e of its unit: the value is significand * 2^(e - 52).  The operands
\* of the model are integers below 2^8.
Limb == 2^13
DoubleZero == [zero |-> TRUE]

\* Limbs brought back below 2^13, the excess carried upwards into top.
Carry(l) ==
  LET c4 == l[5] \div Limb
      c3 == (l[4] + c4) \div Limb
      c2 == (l[3] + c3) \div Limb
      c1 == (l[2] + c2) \div Limb
  IN <<l[1] + c1, (l[2] + c2) % Limb, (l[3] + c3) % Limb, (l[4] + c4) % Limb, l[5] % Limb>>

RECURSIVE Normalized(_, _, _)
\* n / d scaled by a power of two so that 1 <= n / d < 2, with the exponent.
Normalized(n, d, e) ==
  IF n < d THEN Normalized(2 * n, d, e - 1)
  ELSE IF n >= 2 * d THEN Normalized(n, 2 * d, e + 1)
  ELSE [n |-> n, d |-> d, e |-> e]

\* completed / total: the quotient of two positive integers, rounded to the
\* nearest double, ties to the even significand.
DoubleQuotient(completed, total) ==
  IF completed = 0 THEN DoubleZero
  ELSE LET s == Normalized(completed, total, 0)
           r0 == s.n - s.d
           l1 == (r0 * Limb) \div s.d
           r1 == (r0 * Limb) % s.d
           l2 == (r1 * Limb) \div s.d
           r2 == (r1 * Limb) % s.d
           l3 == (r2 * Limb) \div s.d
           r3 == (r2 * Limb) % s.d
           l4 == (r3 * Limb) \div s.d
           r4 == (r3 * Limb) % s.d
           up == 2 * r4 > s.d \/ (2 * r4 = s.d /\ l4 % 2 = 1)
           m == Carry(<<1, l1, l2, l3, l4 + (IF up THEN 1 ELSE 0)>>)
       IN IF m[1] = 2 THEN [zero |-> FALSE, m |-> <<1, 0, 0, 0, 0>>, e |-> s.e + 1]
          ELSE [zero |-> FALSE, m |-> m, e |-> s.e]

\* x * 100 for a double x produced by DoubleQuotient, rounded to the nearest
\* double (ties to even).  The product of the significand by 100 has 6 or 7
\* bits more than a significand holds: they are rounded away, the limbs kept
\* at the scale of x.
DoubleTimes100(x) ==
  IF x.zero THEN DoubleZero
  ELSE LET p == Carry(<<100 * x.m[1], 100 * x.m[2], 100 * x.m[3], 100 * x.m[4], 100 * x.m[5]>>)
           unit == IF p[1] < 128 THEN 2^6 ELSE 2^7
           dropped == p[5] % unit
           odd == (p[5] \div unit) % 2 = 1
           up == 2 * dropped > unit \/ (2 * dropped = unit /\ odd)
       IN [zero |-> FALSE,
           m |-> Carry(<<p[1], p[2], p[3], p[4],
                         p[5] - dropped + (IF up THEN unit ELSE 0)>>),
           e |-> x.e]

\* Math.round(x) = floor(x + 0.5), exact, for a double x produced by
\* DoubleTimes100 (0 <= x < 2^18).
MathRound(x) ==
  IF x.zero THEN 0
  ELSE LET shift == 52 - x.e
           half == shift - 1
           plus == IF half >= 52
                   THEN Carry(<<x.m[1] + 2^(half - 52), x.m[2], x.m[3], x.m[4], x.m[5]>>)
                   ELSE Carry([k \in 1..5 |->
                                 IF k = 5 - (half \div 13) THEN x.m[k] + 2^(half % 13)
                                 ELSE x.m[k]])
       IN IF shift >= 65 THEN 0
          ELSE IF shift >= 52 THEN plus[1] \div 2^(shift - 52)
          ELSE (plus[1] * Limb + plus[2]) \div 2^(shift - 39)

\* total === 0 ? 0 : Math.round((completed / total) * 100)
OverallProgress(completed, total) ==
  IF total = 0 THEN 0 ELSE MathRound(DoubleTimes100(DoubleQuotient(completed, total)))

\* progress === 100 ? 'Completed' : (progress > 0 ? 'In Progress' : 'Not Started')
OverallStatus(progress) ==
  IF progress = 100 THEN "Completed"
  ELSE IF progress > 0 THEN "In Progress" ELSE "Not Started"

\* ---------------------------------------------------------- request bodies
\* Bodies of POST /api/seed-controls: arrays of control objects.
SeedControlObjects ==
  [id : ControlIds, framework_id : {"F1"}, questionnaires : 0..MaxQuestions]
    \cup [id : ControlIds, framework_id : {"F2"}, questionnaires : {MaxQuestions}]
SeedBodies == {<<>>} \cup {<<c>> : c \in SeedControlObjects}

\* Bodies of POST /api/audits (the fields the handler requires).
AuditBodies ==
  LET full == [title : {"t"}, domain_type : DomainTypes, userId : {"u"},
               client_company_name : {"co"}]
      cloud == [title |-> "t", domain_type |-> "Cloud", userId |-> "u",
                client_company_name |-> "co"]
  IN full \cup {[cloud EXCEPT ![f] = Undefined] : f \in DOMAIN cloud}

\* Bodies of PUT /api/audits/:id/responses; is_array is Array.isArray(question_responses).
\* A verdict with a justification, over every array of selected options.
VerdictBodies ==
  [control_id : ControlIds,
   question_responses : QuestionResponseInputs,
   is_array : {TRUE},
   compliance_status : {"Yes"},
   justification_text : {"j"}]
\* Every question answered, compliance_status and justification_text omitted.
AnswersOnlyBodies ==
  [control_id : ControlIds,
   question_responses : {[k \in 1..MaxQuestions |-> "a"]},
   is_array : {TRUE},
   compliance_status : {Undefined},
   justification_text : {Undefined}]
\* Bodies the handler rejects: no control_id, question_responses not an array.
InvalidBodies ==
  LET one == [control_id |-> "c1", question_responses |-> <<>>, is_array |-> TRUE,
              compliance_status |-> "Yes", justification_text |-> Undefined]
  IN {[one EXCEPT !.control_id = Undefined], [one EXCEPT !.is_array = FALSE]}
ResponseBodies == VerdictBodies \cup AnswersOnlyBodies \cup InvalidBodies
\* The submissions of the concurrent runs: every question answered, with or
\* without a verdict, and the rejected bodies.
ConcurrentBodies ==
  {b \in ResponseBodies : b.question_responses = [k \in 1..MaxQuestions |-> "a"]}
    \cup InvalidBodies

\* ------------------------------------------------------ request bookkeeping
\* What is remembered of an answered request: the route, the audit, the HTTP
\* status, the body of a submission, the summary a read returned, whether the
\* request wrote the audit document, and the read answered right before it.
Completion(op, audit, code, body, ret, wrote, pred) ==
  [op |-> op, audit |-> audit, code |-> code, body |-> body,
   ret |-> ret, wrote |-> wrote, pred |-> pred]

\* What a successful read hands back: the summary fields of its response and
\* the updated_at the audit document carries when the response is sent.
ReadResult(summary, updated_at) == [summary |-> summary, updated_at |-> updated_at]

\* The successful read that was answered immediately before a request arrives.
PredOf(l) ==
  IF l.op = "GET" /\ l.code = 200
  THEN [op |-> l.op, audit |-> l.audit, ret |-> l.ret]
  ELSE NoRequest

\* A request arrives in slot p: the reads in flight are no longer overlapped by
\* reads only, unless the newcomer is a read.
Disturb(p, isRead) ==
  [q \in Procs |->
     IF q # p /\ Busy(q) THEN [req[q] EXCEPT !.clean = (@ /\ isRead)] ELSE req[q]]

Unsettle == [a \in AuditIds |-> FALSE]

\* The request in slot p sends its response.
Respond(p, code, ret, wrote) ==
  /\ req' = [req EXCEPT ![p] = Idle]
  /\ last' = Completion(req[p].op, req[p].audit, code, NoDoc, ret, wrote, NoRequest)
  /\ quiesced' = IF req[p].op = "GET" /\ code = 200 /\ req[p].clean
                 THEN [quiesced EXCEPT ![req[p].audit] = TRUE]
                 ELSE quiesced

\* A request that is answered in the step it arrives in.
Reject(p, op, audit, code, isRead) ==
  /\ req' = Disturb(p, isRead)
  /\ last' = Completion(op, audit, code, NoDoc, NoDoc, FALSE, NoRequest)
  /\ quiesced' = IF isRead THEN quiesced ELSE Unsettle

\* A request that stays in flight after the step it arrives in.
Admit(p, locals, isRead) ==
  /\ req' = [Disturb(p, isRead) EXCEPT ![p] = locals]
  /\ last' = NoRequest
  /\ quiesced' = IF isRead THEN quiesced ELSE Unsettle

\* ------------------------------------------------------------------- Init
Init ==
  /\ frameworks = <<[id |-> "F1", type |-> "Cloud"], [id |-> "F2", type |-> "ISMS"]>>
  /\ controls = [c \in ControlIds |-> NoDoc]
  /\ audits = [a \in AuditIds |-> NoDoc]
  /\ responses = [a \in AuditIds |-> [c \in ControlIds |-> NoDoc]]
  /\ clock = 0
  /\ req = [p \in Procs |-> Idle]
  /\ last = NoRequest
  /\ created = [a \in AuditIds |-> {}]
  /\ quiesced = [a \in AuditIds |-> FALSE]

\* ------------------------------------------- POST /api/seed-controls
\* batch.set(docRef, {...control}, {merge: false}) for every element with an id,
\* then one commit.
SeededControls(body) ==
  [c \in ControlIds |->
     IF \E k \in 1..Len(body) : body[k].id = c
     THEN LET k == CHOOSE k \in 1..Len(body) :
                     body[k].id = c /\ \A j \in (k + 1)..Len(body) : body[j].id # c
          IN [exists |-> TRUE, framework_id |-> body[k].framework_id,
              questionnaires |-> body[k].questionnaires]
     ELSE controls[c]]

SeedControls(p, body) ==
  /\ ~Busy(p)
  /\ IF Len(body) = 0
     THEN /\ Reject(p, "SEED", 0, 400, FALSE)
          /\ UNCHANGED controls
     ELSE /\ Reject(p, "SEED", 0, 201, FALSE)
          /\ controls' = SeededControls(body)
  /\ UNCHANGED <<frameworks, audits, responses, clock, created>>

\* ----------------------------------------------------- the chunk loop
\* One iteration of `for (i = 0; i < ids.length; i += chunkSize)`: one 'in'
\* query on controls.framework_id, its documents appended to the list.
QueryChunk(p, loopPc, nextPc) ==
  /\ req[p].pc = loopPc
  /\ LET r == req[p]
         list == r.allControls \o QueryControls(Chunk(r.frameworkIds, r.i))
         next == r.i + chunkSize
     IN req' = [req EXCEPT ![p] =
                  [r EXCEPT !.allControls = list, !.i = next,
                            !.pc = IF next < Len(r.frameworkIds) THEN loopPc ELSE nextPc]]
  /\ UNCHANGED <<frameworks, controls, audits, responses, clock, last, created, quiesced>>

RECURSIVE ChunkedControls(_, _)
\* The whole loop with no other request's step between its queries.
ChunkedControls(ids, i) ==
  IF i >= Len(ids) THEN <<>>
  ELSE QueryControls(Chunk(ids, i)) \o ChunkedControls(ids, i + chunkSize)

\* ---------------------------------------------------- POST /api/audits
CreateLocals(ids) ==
  [pc |-> "create_controls", op |-> "CREATE", audit |-> 0, body |-> NoDoc,
   frameworkIds |-> ids, i |-> 0, allControls |-> <<>>,
   clean |-> FALSE, after |-> FALSE]

\* A creation that goes on to the frameworks query without validating the body.
CreateAuditStartUnvalidated(p, body) ==
  /\ ~Busy(p)
  /\ \E id \in AuditIds : ~audits[id].exists
  /\ LET frameworksAuditedIds == FrameworksOfType(IF Truthy(body.domain_type)
                                                  THEN body.domain_type ELSE "Cloud")
     IN IF Len(frameworksAuditedIds) = 0
        THEN Reject(p, "CREATE", 0, 404, FALSE)
        ELSE Admit(p, CreateLocals(frameworksAuditedIds), FALSE)
  /\ UNCHANGED <<frameworks, controls, audits, responses, clock, created>>

\* Validation and the frameworks query.  (The model has MaxAudits document
\* ids to hand out: a creation request arrives while one is left.)
CreateAuditStart(p, body) ==
  /\ ~Busy(p)
  /\ \E id \in AuditIds : ~audits[id].exists
  /\ IF \/ ~Truthy(body.title) \/ ~Truthy(body.domain_type)
        \/ ~Truthy(body.userId) \/ ~Truthy(body.client_company_name)
     THEN Reject(p, "CREATE", 0, 400, FALSE)
     ELSE LET frameworksAuditedIds == FrameworksOfType(body.domain_type)
          IN IF Len(frameworksAuditedIds) = 0
             THEN Reject(p, "CREATE", 0, 404, FALSE)
             ELSE Admit(p, CreateLocals(frameworksAuditedIds), FALSE)
  /\ UNCHANGED <<frameworks, controls, audits, responses, clock, created>>

CreateAuditQueryChunk(p) == QueryChunk(p, "create_controls", "create_add")

\* The newAudit object.
NewAudit(frameworksAuditedIds, allControlsForDomain, now) ==
  [exists |-> TRUE,
   frameworks_audited |-> frameworksAuditedIds,
   overall_status |-> "Not Started",
   overall_score |-> 0,
   updated_at |-> now,
   total_controls_in_audit |-> Len(allControlsForDomain),
   completed_controls_in_audit |-> 0]

\* await db.collection('audits').add(newAudit): a document under a fresh id.
CreateAuditAdd(p) ==
  /\ req[p].pc = "create_add"
  /\ clock < MaxTime
  /\ \E id \in AuditIds :
       /\ ~audits[id].exists
       /\ \A other \in AuditIds : other < id => audits[other].exists
       /\ LET r == req[p]
          IN /\ audits' = [audits EXCEPT ![id] = NewAudit(r.frameworkIds, r.allControls, clock)]
             /\ created' = [created EXCEPT ![id] =
                              {r.allControls[k].id : k \in 1..Len(r.allControls)}]
             /\ req' = [req EXCEPT ![p] = [r EXCEPT !.pc = "create_commit", !.audit = id]]
  /\ clock' = clock + 1
  /\ UNCHANGED <<frameworks, controls, responses, last, quiesced>>

\* initialResponseData for one control of allControlsForDomain.
InitialResponse(control) ==
  [exists |-> TRUE,
   control_id |-> control.id,
   question_responses |-> [k \in 1..control.data.questionnaires |-> Null],
   compliance_status |-> "Not Answered",
   justification_text |-> Null]

\* The responses sub-collection after one batch.set (no merge) per control of the list.
InitializedResponses(old, allControlsForDomain) ==
  LET n == Len(allControlsForDomain)
      lastOf(c) == CHOOSE k \in 1..n :
                     /\ allControlsForDomain[k].id = c
                     /\ \A j \in (k + 1)..n : allControlsForDomain[j].id # c
  IN [c \in ControlIds |->
        IF \E k \in 1..n : allControlsForDomain[k].id = c
        THEN InitialResponse(allControlsForDomain[lastOf(c)])
        ELSE old[c]]

\* await batch.commit() of the initial responses, then 201.
CreateAuditCommit(p) ==
  /\ req[p].pc = "create_commit"
  /\ LET r == req[p]
     IN /\ responses' = [responses EXCEPT ![r.audit] = InitializedResponses(@, r.allControls)]
        /\ Respond(p, 201, NoDoc, TRUE)
  /\ UNCHANGED <<frameworks, controls, audits, clock, created>>

\* ------------------------------------------------ GET /api/audits/:id
\* What the read computes from its list of controls and the responses snapshot.
GetAuditCalc(allControlsForAudit, snapshot) ==
  LET controlDefinitionsMap == ControlDefinitionsMap(allControlsForAudit)
      totalExpectedControls == Len(allControlsForAudit)
      completedControlsCount == CompletedControlsCount(controlDefinitionsMap, snapshot)
      overallProgress == OverallProgress(completedControlsCount, totalExpectedControls)
  IN [overall_score |-> overallProgress,
      overall_status |-> OverallStatus(overallProgress),
      completed_controls_in_audit |-> completedControlsCount]

\* A read that skips the comparison and writes every time.
GetAuditAlwaysWrites(auditData, calc) == TRUE

\* if (score !== progress || status !== overallStatus || completed !== count)
GetAuditNeedsWrite(auditData, calc) == Summary(auditData) # calc

\* An update that writes the score and the count and leaves the status out.
SummaryUpdateKeepsStatus(doc, calc, now) ==
  [doc EXCEPT !.overall_score = calc.overall_score,
              !.completed_controls_in_audit = calc.completed_controls_in_audit,
              !.updated_at = now]

\* An update that leaves completed_controls_in_audit out.
SummaryUpdateDropsCount(doc, calc, now) ==
  [doc EXCEPT !.overall_score = calc.overall_score,
              !.overall_status = calc.overall_status,
              !.updated_at = now]

\* An update that also sets total_controls_in_audit, to the number counted.
SummaryUpdateResetsTotal(doc, calc, now) ==
  [doc EXCEPT !.overall_score = calc.overall_score,
              !.overall_status = calc.overall_status,
              !.completed_controls_in_audit = calc.completed_controls_in_audit,
              !.total_controls_in_audit = calc.completed_controls_in_audit,
              !.updated_at = now]

\* updateBatch.update / batch.update(auditDocRef, {three fields, updated_at}).
SummaryUpdate(doc, calc, now) ==
  [doc EXCEPT !.overall_score = calc.overall_score,
              !.overall_status = calc.overall_status,
              !.completed_controls_in_audit = calc.completed_controls_in_audit,
              !.updated_at = now]

\* The handler run with no other request's step between its awaits.  A store
\* call that rejects (ok = FALSE) ends it with 500 and nothing written.
GetAudit(a, ok) ==
  /\ NoneInFlight
  /\ IF ~ok
     THEN /\ last' = Completion("GET", a, 500, NoDoc, NoDoc, FALSE, PredOf(last))
          /\ UNCHANGED <<audits, clock>>
     ELSE IF ~audits[a].exists
     THEN /\ last' = Completion("GET", a, 404, NoDoc, NoDoc, FALSE, PredOf(last))
          /\ UNCHANGED <<audits, clock>>
     ELSE LET auditData == audits[a]
              allControlsForAudit == ChunkedControls(auditData.frameworks_audited, 0)
              calc == GetAuditCalc(allControlsForAudit, responses[a])
          IN IF GetAuditNeedsWrite(auditData, calc)
             THEN /\ clock < MaxTime
                  /\ audits' = [audits EXCEPT ![a] = SummaryUpdate(@, calc, clock)]
                  /\ clock' = clock + 1
                  /\ last' = Completion("GET", a, 200, NoDoc, ReadResult(calc, clock), TRUE,
                                        PredOf(last))
             ELSE /\ UNCHANGED <<audits, clock>>
                  /\ last' = Completion("GET", a, 200, NoDoc,
                                        ReadResult(Summary(auditData), auditData.updated_at),
                                        FALSE, PredOf(last))
  /\ UNCHANGED <<frameworks, controls, responses, req, created, quiesced>>

\* The same handler, one await per step.
GetLocals(a) ==
  [pc |-> IF Len(audits[a].frameworks_audited) > 0 THEN "get_controls" ELSE "get_responses",
   op |-> "GET", audit |-> a, body |-> NoDoc, auditData |-> audits[a],
   frameworkIds |-> audits[a].frameworks_audited, i |-> 0, allControls |-> <<>>,
   calc |-> NoDoc,
   clean |-> NoneInFlight, after |-> quiesced[a]]

\* await auditDocRef.get(); 404 when the document does not exist.
GetAuditStart(p, a) ==
  /\ ~Busy(p)
  /\ IF ~audits[a].exists
     THEN Reject(p, "GET", a, 404, TRUE)
     ELSE Admit(p, GetLocals(a), TRUE)
  /\ UNCHANGED <<frameworks, controls, audits, responses, clock, created>>

GetAuditQueryChunk(p) == QueryChunk(p, "get_controls", "get_responses")

\* await responsesRef.get(), the recomputation and the comparison with the
\* summary read at the start; without a difference the audit is returned as read.
GetAuditResponses(p) ==
  /\ req[p].pc = "get_responses"
  /\ LET r == req[p]
         calc == GetAuditCalc(r.allControls, responses[r.audit])
     IN IF GetAuditNeedsWrite(r.auditData, calc)
        THEN /\ req' = [req EXCEPT ![p] = [r EXCEPT !.pc = "get_commit", !.calc = calc]]
             /\ UNCHANGED <<last, quiesced>>
        ELSE Respond(p, 200, ReadResult(Summary(r.auditData), audits[r.audit].updated_at), FALSE)
  /\ UNCHANGED <<frameworks, controls, audits, responses, clock, created>>

\* await updateBatch.commit().
GetAuditCommit(p) ==
  /\ req[p].pc = "get_commit"
  /\ clock < MaxTime
  /\ LET r == req[p]
     IN /\ audits' = [audits EXCEPT ![r.audit] = SummaryUpdate(@, r.calc, clock)]
        /\ Respond(p, 200, ReadResult(r.calc, clock), TRUE)
  /\ clock' = clock + 1
  /\ UNCHANGED <<frameworks, controls, responses, created>>

\* ------------------------------------- PUT /api/audits/:id/responses
\* What the submission computes from the audit read at the start, its list of
\* controls and its responses snapshot.
PutCalc(auditData, allControlsForAudit, snapshot) ==
  LET totalExpectedControls == auditData.total_controls_in_audit
      currentControlDefinitionsMap == ControlDefinitionsMap(allControlsForAudit)
      currentCompletedControlsCount ==
        CompletedControlsCount(currentControlDefinitionsMap, snapshot)
      newOverallProgress == OverallProgress(currentCompletedControlsCount, totalExpectedControls)
  IN [overall_score |-> newOverallProgress,
      overall_status |-> OverallStatus(newOverallProgress),
      completed_controls_in_audit |-> currentCompletedControlsCount]

\* The object handed to batch.set(responseDocRef, ..., {merge: true}).  The
\* fields maturity_level_selected, evidence_path, evidence_filename and
\* ai_recommendation are written by the same expression as justification_text.
ResponseFields(body) ==
  [exists |-> TRUE,
   control_id |-> body.control_id,
   question_responses |-> body.question_responses,
   compliance_status |-> OrElse(body.compliance_status, "Not Answered"),
   justification_text |-> OrElse(body.justification_text, Null)]

\* set with {merge: true}: the fields given replace the stored ones, the others stay.
MergeSet(old, fields) ==
  IF ~old.exists THEN fields
  ELSE [k \in DOMAIN old \cup DOMAIN fields |->
          IF k \in DOMAIN fields THEN fields[k] ELSE old[k]]

\* The responses the submission's own snapshot holds: those committed when
\* auditDocRef.collection('responses').get() is answered; the write queued in
\* the batch is not among them.
PutSnapshot(stored, body) == stored

\* Whether the submission queues batch.update of the audit summary.
PutNeedsWrite(auditData, calc) == TRUE

\* The audit document after the batch of a submission is committed.
PutAuditWrite(doc, auditData, calc, now) ==
  IF PutNeedsWrite(auditData, calc) THEN SummaryUpdate(doc, calc, now) ELSE doc

\* A submission that commits its response write before it looks for the audit.
PutResponsesWritesBeforeLookup(a, body, ok) ==
  /\ NoneInFlight
  /\ IF ~Truthy(body.control_id) \/ ~body.is_array
     THEN /\ last' = Completion("PUT", a, 400, NoDoc, NoDoc, FALSE, NoRequest)
          /\ UNCHANGED <<audits, responses, clock>>
     ELSE IF ~ok
     THEN /\ last' = Completion("PUT", a, 500, NoDoc, NoDoc, FALSE, NoRequest)
          /\ UNCHANGED <<audits, responses, clock>>
     ELSE IF ~audits[a].exists
     THEN /\ last' = Completion("PUT", a, 404, NoDoc, NoDoc, FALSE, NoRequest)
          /\ responses' = [responses EXCEPT ![a][body.control_id] =
                             MergeSet(@, ResponseFields(body))]
          /\ UNCHANGED <<audits, clock>>
     ELSE LET auditData == audits[a]
              calc == PutCalc(auditData, ChunkedControls(auditData.frameworks_audited, 0),
                              PutSnapshot(responses[a], body))
          IN /\ clock < MaxTime
             /\ responses' = [responses EXCEPT ![a][body.control_id] =
                                MergeSet(@, ResponseFields(body))]
             /\ audits' = [audits EXCEPT ![a] = PutAuditWrite(@, auditData, calc, clock)]
             /\ clock' = clock + 1
             /\ last' = Completion("PUT", a, 200, body, NoDoc, TRUE, NoRequest)
  /\ UNCHANGED <<frameworks, controls, req, created, quiesced>>

\* The handler run with no other request's step between its awaits.  A store
\* call that rejects (ok = FALSE) ends it with 500 and nothing written.
PutResponses(a, body, ok) ==
  /\ NoneInFlight
  /\ IF ~Truthy(body.control_id) \/ ~body.is_array
     THEN /\ last' = Completion("PUT", a, 400, NoDoc, NoDoc, FALSE, NoRequest)
          /\ UNCHANGED <<audits, responses, clock>>
     ELSE IF ~ok
     THEN /\ last' = Completion("PUT", a, 500, NoDoc, NoDoc, FALSE, NoRequest)
          /\ UNCHANGED <<audits, responses, clock>>
     ELSE IF ~audits[a].exists
     THEN /\ last' = Completion("PUT", a, 404, NoDoc, NoDoc, FALSE, NoRequest)
          /\ UNCHANGED <<audits, responses, clock>>
     ELSE LET auditData == audits[a]
              allResponsesSnapshot == PutSnapshot(responses[a], body)
              allControlsForAudit == ChunkedControls(auditData.frameworks_audited, 0)
              calc == PutCalc(auditData, allControlsForAudit, allResponsesSnapshot)
          IN /\ clock < MaxTime
             /\ responses' = [responses EXCEPT ![a][body.control_id] =
                                MergeSet(@, ResponseFields(body))]
             /\ audits' = [audits EXCEPT ![a] = PutAuditWrite(@, auditData, calc, clock)]
             /\ clock' = clock + 1
             /\ last' = Completion("PUT", a, 200, body, NoDoc, TRUE, NoRequest)
  /\ UNCHANGED <<frameworks, controls, req, created, quiesced>>

\* The same handler, one await per step.
PutLocals(a, body) ==
  [pc |-> "put_control", op |-> "PUT", audit |-> a, body |-> body,
   auditData |-> audits[a], snapshot |-> NoDoc,
   frameworkIds |-> audits[a].frameworks_audited, i |-> 0, allControls |-> <<>>,
   clean |-> FALSE, after |-> FALSE]

\* Validation, the queued batch.set and await auditDocRef.get().
PutResponsesStart(p, a, body) ==
  /\ ~Busy(p)
  /\ IF ~Truthy(body.control_id) \/ ~body.is_array
     THEN Reject(p, "PUT", a, 400, FALSE)
     ELSE IF ~audits[a].exists
          THEN Reject(p, "PUT", a, 404, FALSE)
          ELSE Admit(p, PutLocals(a, body), FALSE)
  /\ UNCHANGED <<frameworks, controls, audits, responses, clock, created>>

\* await db.collection('controls').doc(control_id).get(): numQuestions,
\* allQuestionsAnswered and overallStatusSet are computed and never used.
PutControlDefinition(p) ==
  /\ req[p].pc = "put_control"
  /\ req' = [req EXCEPT ![p].pc = "put_responses"]
  /\ UNCHANGED <<frameworks, controls, audits, responses, clock, last, created, quiesced>>

\* await auditDocRef.collection('responses').get().
PutResponsesSnapshot(p) ==
  /\ req[p].pc = "put_responses"
  /\ LET r == req[p]
     IN req' = [req EXCEPT ![p] =
                  [r EXCEPT !.snapshot = PutSnapshot(responses[r.audit], r.body),
                            !.pc = IF Len(r.frameworkIds) > 0
                                   THEN "put_controls" ELSE "put_commit"]]
  /\ UNCHANGED <<frameworks, controls, audits, responses, clock, last, created, quiesced>>

PutQueryChunk(p) == QueryChunk(p, "put_controls", "put_commit")

\* A commit that applies the response write and leaves the summary update out.
PutCommitResponseOnly(p) ==
  /\ req[p].pc = "put_commit"
  /\ clock < MaxTime
  /\ LET r == req[p]
     IN /\ responses' = [responses EXCEPT ![r.audit][r.body.control_id] =
                           MergeSet(@, ResponseFields(r.body))]
        /\ Respond(p, 200, NoDoc, TRUE)
  /\ clock' = clock + 1
  /\ UNCHANGED <<frameworks, controls, audits, created>>

\* await batch.commit(): the response write and the summary update together.
PutCommit(p) ==
  /\ req[p].pc = "put_commit"
  /\ clock < MaxTime
  /\ LET r == req[p]
         calc == PutCalc(r.auditData, r.allControls, r.snapshot)
     IN /\ responses' = [responses EXCEPT ![r.audit][r.body.control_id] =
                           MergeSet(@, ResponseFields(r.body))]
        /\ audits' = [audits EXCEPT ![r.audit] = PutAuditWrite(@, r.auditData, calc, clock)]
        /\ Respond(p, 200, NoDoc, TRUE)
  /\ clock' = clock + 1
  /\ UNCHANGED <<frameworks, controls, created>>

\* ------------------------------------------------------- store failures
\* An awaited store call of the request in slot p rejects: the handler's catch
\* answers 500 and nothing the request had queued is written.
StoreFail(p) ==
  /\ Busy(p)
  /\ Respond(p, 500, NoDoc, FALSE)
  /\ UNCHANGED <<frameworks, controls, audits, responses, clock, created>>

\* ------------------------------------------------- the read-only routes
\* A read-only route answers in one step, with nothing in flight; what it sends
\* is kept in `last`.
Answer(op, audit, code, ret) ==
  /\ NoneInFlight
  /\ last' = Completion(op, audit, code, NoDoc, ret, FALSE, NoRequest)
  /\ UNCHANGED <<frameworks, controls, audits, responses, clock, req, created, quiesced>>

\* The ids of a set of controls in the order a.id.localeCompare(b.id) sorts them.
SortById(ids) == SelectSeq(ControlOrder, LAMBDA c : c \in ids)

\* ------------------- GET /api/audits/:auditId/responses/:controlId
\* An empty response that is not pre-populated from the control definition.
NoQuestionResponses(controlDefDoc) == <<>>

\* (controlDefData.questionnaires || []).map(...): one entry per question, its
\* selected_option (and option_text) null.
InitialQuestionResponses(controlDefDoc) ==
  IF controlDefDoc.exists THEN [k \in 1..NumQuestions(controlDefDoc) |-> Null] ELSE <<>>

\* The body sent for a control without a stored response.
EmptyResponse(controlId) ==
  [control_id |-> controlId,
   question_responses |-> InitialQuestionResponses(controls[controlId]),
   compliance_status |-> "Not Answered",
   justification_text |-> EmptyString]

\* The handler: the stored response, or the empty one built from the control
\* definition.  The audit document is not looked at.
GetResponse(a, c, ok) ==
  IF ~ok THEN Answer("RESPONSE", a, 500, NoDoc)
  ELSE IF ~responses[a][c].exists
       THEN Answer("RESPONSE", a, 200, [found |-> FALSE, control |-> c, data |-> EmptyResponse(c)])
       ELSE Answer("RESPONSE", a, 200, [found |-> TRUE, control |-> c, data |-> responses[a][c]])

\* ------------------------------ GET /api/audits/:auditId/report/pdf
\* Object.values(controlDefinitionsMap): the map is a Map instance, which has
\* no own enumerable properties, so the array is empty whatever the map holds.
ObjectValuesOfMap(controlDefinitionsMap) == <<>>

\* controlsToReport: the values kept are those with a response under their id,
\* sorted by id.
ControlsToReport(controlDefinitionsMap, auditResponses) ==
  LET values == ObjectValuesOfMap(controlDefinitionsMap)
      kept == {values[k].id : k \in {j \in 1..Len(values) : auditResponses[values[j].id].exists}}
  IN SortById(kept)

PdfReport(a, ok) ==
  IF ~ok THEN Answer("PDF", a, 500, NoDoc)
  ELSE IF ~audits[a].exists THEN Answer("PDF", a, 404, NoDoc)
  ELSE LET allControlsForAudit == ChunkedControls(audits[a].frameworks_audited, 0)
           controlDefinitionsMap == ControlDefinitionsMap(allControlsForAudit)
       IN Answer("PDF", a, 200,
                 [controls |-> ControlsToReport(controlDefinitionsMap, responses[a])])

\* --------------------------- GET /api/audits/:auditId/checklist/xlsx
\* controlsForExcel: every control of the audit's frameworks, sorted by id.
XlsxChecklist(a, ok) ==
  IF ~ok THEN Answer("XLSX", a, 500, NoDoc)
  ELSE IF ~audits[a].exists THEN Answer("XLSX", a, 404, NoDoc)
  ELSE LET allControlsForAudit == ChunkedControls(audits[a].frameworks_audited, 0)
       IN Answer("XLSX", a, 200,
                 [controls |-> SortById({allControlsForAudit[k].id :
                                           k \in 1..Len(allControlsForAudit)})])

\* ------------------------------ GET /api/frameworks/:type/controls
\* The store takes at most this many comparison values in one 'in' query and
\* rejects a query that carries more.
InQueryLimit == 10

\* One 'in' query over all the framework ids of the type, not chunked.  `asked`
\* is the number of comparison values the query carried (0: no query issued).
ListControls(type, ok) ==
  LET frameworkIds == FrameworksOfType(type)
      listed == QueryControls(frameworkIds)
  IN IF ~ok THEN Answer("LIST", type, 500, NoDoc)
     ELSE IF Len(frameworkIds) = 0
          THEN Answer("LIST", type, 200, [controls |-> <<>>, asked |-> 0])
     ELSE IF Len(frameworkIds) > InQueryLimit
          THEN Answer("LIST", type, 500, [asked |-> Len(frameworkIds)])
     ELSE Answer("LIST", type, 200,
                 [controls |-> [k \in 1..Len(listed) |-> listed[k].id],
                  asked |-> Len(frameworkIds)])

\* ------------------------------------------------------------------- Next
\* Requests served one at a time.  Seeding and audit creation run in slot r1,
\* creation one await per step; a read or a submission runs from its first
\* await to its response in one step.
Next ==
  \/ \E body \in SeedBodies : SeedControls("r1", body)
  \/ \E body \in AuditBodies : CreateAuditStart("r1", body)
  \/ CreateAuditQueryChunk("r1")
  \/ CreateAuditAdd("r1")
  \/ CreateAuditCommit("r1")
  \/ StoreFail("r1")
  \/ \E a \in AuditIds, ok \in BOOLEAN : GetAudit(a, ok)
  \/ \E a \in AuditIds, body \in ResponseBodies, ok \in BOOLEAN : PutResponses(a, body, ok)

Spec == Init /\ [][Next]_vars

\* The same runs with the read-only routes served between the requests.
NextReports ==
  \/ Next
  \/ \E a \in AuditIds, c \in ControlIds, ok \in BOOLEAN : GetResponse(a, c, ok)
  \/ \E a \in AuditIds, ok \in BOOLEAN : PdfReport(a, ok)
  \/ \E a \in AuditIds, ok \in BOOLEAN : XlsxChecklist(a, ok)
  \/ \E type \in DomainTypes, ok \in BOOLEAN : ListControls(type, ok)

SpecReports == Init /\ [][NextReports]_vars

\* A store in which the catalog is seeded and an audit has been created: both
\* controls in framework F1, the audit's responses initialized.
SeededControl(c) ==
  [exists |-> TRUE, framework_id |-> "F1", questionnaires |-> MaxQuestions]

InitConcurrent ==
  /\ frameworks = <<[id |-> "F1", type |-> "Cloud"], [id |-> "F2", type |-> "ISMS"]>>
  /\ controls = [c \in ControlIds |-> SeededControl(c)]
  /\ audits = [a \in AuditIds |->
                 IF a = 1 THEN NewAudit(<<"F1">>, ControlOrder, 0) ELSE NoDoc]
  /\ responses = [a \in AuditIds |->
                    [c \in ControlIds |->
                       IF a = 1 THEN InitialResponse([id |-> c, data |-> SeededControl(c)])
                       ELSE NoDoc]]
  /\ clock = 1
  /\ req = [p \in Procs |-> Idle]
  /\ last = NoRequest
  /\ created = [a \in AuditIds |-> IF a = 1 THEN ControlIds ELSE {}]
  /\ quiesced = [a \in AuditIds |-> FALSE]

\* Concurrent reads and submissions, one await per step, in every slot.
NextConcurrent ==
  \E p \in Procs :
    \/ \E a \in AuditIds : GetAuditStart(p, a)
    \/ GetAuditQueryChunk(p)
    \/ GetAuditResponses(p)
    \/ GetAuditCommit(p)
    \/ \E a \in AuditIds, body \in ConcurrentBodies : PutResponsesStart(p, a, body)
    \/ PutControlDefinition(p)
    \/ PutResponsesSnapshot(p)
    \/ PutQueryChunk(p)
    \/ PutCommit(p)
    \/ StoreFail(p)

SpecConcurrent == InitConcurrent /\ [][NextConcurrent]_vars

\* ------------------------------------------------------------------ claims
\* The controls the catalog now holds for the frameworks of audit a.
CatalogSubset(a) ==
  {c \in ControlIds :
     controls[c].exists /\ controls[c].framework_id \in SeqRange(audits[a].frameworks_audited)}

\* The responses stored under audit a.
StoredResponses(a) == {c \in ControlIds : responses[a][c].exists}

\* A submission to audit a was answered 200 in the step just taken.
Submitted(a) == last.op = "PUT" /\ last.code = 200 /\ last.audit = a
\* A read of audit a was answered 200 in the step just taken.
ReadDone(a) == last.op = "GET" /\ last.code = 200 /\ last.audit = a

\* C1: after a response submission that ran alone, the persisted summary
\* fields equal the values computed from the audit's responses including the
\* one just submitted.
C1_SubmissionCountsItself ==
  \A a \in AuditIds :
    Submitted(a) =>
      Summary(audits[a]) =
        PutCalc(audits[a], ChunkedControls(audits[a].frameworks_audited, 0), responses[a])

\* The completeness test as the specification words it: every question has a
\* question_responses entry whose selected_option is not null.
NonNullComplete(def, res) ==
  /\ def.questionnaires > 0
  /\ Len(SelectSeq(res.question_responses, LAMBDA v : v # Null)) = def.questionnaires
  /\ res.compliance_status \in {"Yes", "Partial", "No", "Not Applicable"}

NonNullCompleted(a) ==
  {c \in CatalogSubset(a) \cap StoredResponses(a) : NonNullComplete(controls[c], responses[a][c])}

\* C2: the count a reconciliation persists (read-triggered or write-triggered)
\* is the number of responses, among those it read, whose control has at least one
\* question, as many non-null selected_option entries as questions, and a
\* terminal compliance_status.
C2_CountsNonNullAnswers ==
  [][\A a \in AuditIds :
       (last'.op \in {"GET", "PUT"} /\ last'.code = 200 /\ last'.audit = a /\ last' # last)
         => audits'[a].completed_controls_in_audit = Cardinality(NonNullCompleted(a))]_vars

\* C3: the persisted overall_score is always
\* round(100 * completed_controls_in_audit / total_controls_in_audit), 0 when
\* the total is 0.
C3_ScoreFromStoredTotal ==
  \A a \in AuditIds :
    audits[a].exists =>
      audits[a].overall_score =
        (IF audits[a].total_controls_in_audit = 0 THEN 0
         ELSE (200 * audits[a].completed_controls_in_audit + audits[a].total_controls_in_audit)
                \div (2 * audits[a].total_controls_in_audit))

\* C4: the persisted overall_score is always an integer between 0 and 100.
C4_ScoreWithinPercent ==
  \A a \in AuditIds : audits[a].exists => audits[a].overall_score \in 0..100

\* C5: a read of an audit answered right after another read of the same audit
\* (nothing else in between) returns the same summary fields, does not write
\* the audit document and leaves updated_at as the first read left it.
C5_SecondReadIsNoOp ==
  \A a \in AuditIds :
    (ReadDone(a) /\ last.pred.op = "GET" /\ last.pred.audit = a)
      => /\ ~last.wrote
         /\ last.ret.summary = last.pred.ret.summary
         /\ last.ret.updated_at = last.pred.ret.updated_at
         /\ audits[a].updated_at = last.pred.ret.updated_at

C5_Witness ==
  \E a \in AuditIds :
    /\ ReadDone(a) /\ last.pred.op = "GET" /\ last.pred.audit = a
    /\ audits[a].completed_controls_in_audit > 0

\* C6: a response submission whose recomputed summary equals the persisted
\* one leaves the audit document, updated_at included, as it was.
C6_SubmissionSkipsEqualSummary ==
  [][\A a \in AuditIds :
       (last'.op = "PUT" /\ last'.code = 200 /\ last'.audit = a /\ clock' # clock
        /\ Summary(audits[a]) =
             PutCalc(audits[a], ChunkedControls(audits[a].frameworks_audited, 0), responses[a]))
         => audits'[a] = audits[a]]_vars

\* The summary the stored responses of audit a call for: the responses that
\* are complete, over the audit's stored total.
ExpectedSummary(a) ==
  LET completed == Cardinality(NonNullCompleted(a))
      total == audits[a].total_controls_in_audit
      progress == IF total = 0 THEN 0 ELSE (200 * completed + total) \div (2 * total)
  IN [overall_score |-> progress,
      overall_status |-> IF progress = 100 THEN "Completed"
                         ELSE IF progress > 0 THEN "In Progress" ELSE "Not Started",
      completed_controls_in_audit |-> completed]

\* C7: once a read that began with nothing in flight, and was overlapped by
\* reads only, has been answered and no write request has arrived since, the
\* persisted summary equals the values computed from the stored responses, and
\* no read begun after that answer ever needs to write.
C7_ReconciliationConverges ==
  /\ \A a \in AuditIds : quiesced[a] => Summary(audits[a]) = ExpectedSummary(a)
  /\ \A p \in Procs :
       (Busy(p) /\ req[p].op = "GET" /\ req[p].after /\ quiesced[req[p].audit])
         => req[p].pc # "get_commit"

C7_Witness ==
  \E a \in AuditIds, p \in Procs :
    /\ quiesced[a]
    /\ audits[a].completed_controls_in_audit = Cardinality(ControlIds)
    /\ Busy(p) /\ req[p].op = "GET" /\ req[p].after /\ req[p].pc = "get_responses"

\* C8: a response submission that omits compliance_status or
\* justification_text leaves the stored value of that field untouched.
C8_OmittedFieldsKept ==
  [][\A a \in AuditIds, c \in ControlIds :
       (last'.op = "PUT" /\ last'.code = 200 /\ last'.audit = a /\ clock' # clock
        /\ last'.body.control_id = c /\ responses[a][c].exists)
         => /\ last'.body.compliance_status = Undefined
                 => responses'[a][c].compliance_status = responses[a][c].compliance_status
            /\ last'.body.justification_text = Undefined
                 => responses'[a][c].justification_text = responses[a][c].justification_text]_vars

\* C9: every audit document that exists has exactly one response per control
\* of its frameworks (the controls found when it was created), no fewer and
\* no more.
C9_OneResponsePerControl ==
  \A a \in AuditIds : audits[a].exists => StoredResponses(a) = created[a]

\* C10: when a stored response names a control that the catalog no longer
\* holds for the audit's frameworks (the catalog holding no control the audit
\* was not created with), a read or a submission answered 200 leaves a score
\* whose denominator leaves that control out.
C10_StaleLeftOutOfDenominator ==
  \A a \in AuditIds :
    ((Submitted(a) \/ ReadDone(a))
     /\ StoredResponses(a) \ CatalogSubset(a) # {}
     /\ CatalogSubset(a) \subseteq created[a])
      => audits[a].overall_score =
           OverallProgress(audits[a].completed_controls_in_audit,
                           Cardinality(CatalogSubset(a)))

\* A submission of `body` to audit a that passes validation and meets no
\* store failure is served in the step taken.
ValidSubmission(a, body) ==
  /\ Truthy(body.control_id) /\ body.is_array
  /\ PutResponses(a, body, TRUE)

\* C11: a submission naming a control_id with no definition in the catalog is
\* answered not found (404) and writes neither a response nor the audit.
C11_UnknownControlNotFound ==
  [][\A a \in AuditIds, body \in ResponseBodies :
       (ValidSubmission(a, body) /\ audits[a].exists /\ ~controls[body.control_id].exists)
         => /\ last'.code = 404
            /\ responses' = responses
            /\ audits' = audits]_vars

\* C12: a submission to an audit id that does not exist is answered not found
\* (404) and leaves every collection as it was: the queued response write is
\* never committed.
C12_MissingAuditNotFound ==
  [][\A a \in AuditIds, body \in ResponseBodies :
       (ValidSubmission(a, body) /\ ~audits[a].exists)
         => /\ last'.code = 404
            /\ responses' = responses
            /\ UNCHANGED <<audits, controls, frameworks>>]_vars

C12_Witness ==
  \E a \in AuditIds, c \in ControlIds :
    /\ last.op = "PUT" /\ last.code = 404 /\ last.audit = a
    /\ ~audits[a].exists /\ controls[c].exists
    /\ StoredResponses(a) = {}

\* C13: once an audit document exists, no step of any route (read, submission,
\* seeding, creation, reports, listings) changes its total_controls_in_audit
\* or its frameworks_audited.
C13_TotalAndFrameworksFixed ==
  [][\A a \in AuditIds :
       audits[a].exists
         => /\ audits'[a].exists
            /\ audits'[a].total_controls_in_audit = audits[a].total_controls_in_audit
            /\ audits'[a].frameworks_audited = audits[a].frameworks_audited]_vars

C13_Witness ==
  \E a \in AuditIds :
    /\ ReadDone(a) /\ last.wrote
    /\ audits[a].total_controls_in_audit # Cardinality(CatalogSubset(a))
    /\ audits[a].completed_controls_in_audit > 0

\* Submissions that mark a control complete: every question answered and a
\* terminal compliance_status.
CompletingBodies ==
  [control_id : ControlIds,
   question_responses : {[k \in 1..MaxQuestions |-> "a"]},
   is_array : {TRUE},
   compliance_status : TerminalStatuses,
   justification_text : {"j"}]

\* Runs on the seeded store with its one audit, the catalog left as it is:
\* completing submissions served one at a time, reads served between them.
NextCompleting ==
  \/ \E a \in AuditIds, body \in CompletingBodies, ok \in BOOLEAN : PutResponses(a, body, ok)
  \/ \E a \in AuditIds, ok \in BOOLEAN : GetAudit(a, ok)

SpecCompleting == InitConcurrent /\ [][NextCompleting]_vars

\* C14: while submissions only mark controls complete, served one at a time
\* with the catalog unchanged, the persisted completed_controls_in_audit and
\* overall_score never decrease.
C14_ProgressNeverDecreases ==
  [][\A a \in AuditIds :
       /\ audits'[a].completed_controls_in_audit >= audits[a].completed_controls_in_audit
       /\ audits'[a].overall_score >= audits[a].overall_score]_vars

C14_Witness ==
  \E a \in AuditIds :
    /\ Submitted(a)
    /\ audits[a].completed_controls_in_audit = Cardinality(ControlIds)
    /\ audits[a].overall_score = 100

\* ------------------------------------- the progress computation on its own
\* The computation of lines 326-327 (read) and 478-479 (submission) applied to
\* every completed count and total up to MaxTotal: `last` holds the operands
\* and, once computed, the result.
ProgressOperands(completed, total) ==
  [op |-> "CALC", route |-> "none", completed |-> completed, total |-> total,
   overall_score |-> 0, overall_status |-> "Not Started"]

InitProgress ==
  /\ frameworks = <<[id |-> "F1", type |-> "Cloud"], [id |-> "F2", type |-> "ISMS"]>>
  /\ controls = [c \in ControlIds |-> NoDoc]
  /\ audits = [a \in AuditIds |-> NoDoc]
  /\ responses = [a \in AuditIds |-> [c \in ControlIds |-> NoDoc]]
  /\ clock = 0
  /\ req = [p \in Procs |-> Idle]
  /\ created = [a \in AuditIds |-> {}]
  /\ quiesced = [a \in AuditIds |-> FALSE]
  /\ \E total \in 0..MaxTotal :
       \E completed \in 0..total : last = ProgressOperands(completed, total)

Computed(route) ==
  LET overallProgress == OverallProgress(last.completed, last.total)
  IN [last EXCEPT !.route = route,
                  !.overall_score = overallProgress,
                  !.overall_status = OverallStatus(overallProgress)]

\* overallProgress and overallStatus of the audit read.
ProgressOnRead ==
  /\ last.route = "none"
  /\ last' = Computed("GET")
  /\ UNCHANGED <<frameworks, controls, audits, responses, clock, req, created, quiesced>>

\* newOverallProgress and newOverallStatus of the response submission.
ProgressOnSubmission ==
  /\ last.route = "none"
  /\ last' = Computed("PUT")
  /\ UNCHANGED <<frameworks, controls, audits, responses, clock, req, created, quiesced>>

NextProgress == ProgressOnRead \/ ProgressOnSubmission

SpecProgress == InitProgress /\ [][NextProgress]_vars

\* C15: for every total and every completed count up to it, the progress
\* computed by either route is 0 when the total is 0 and otherwise
\* 100 * completed / total rounded to the nearest integer, halves up, and the
\* status is 'Not Started' for 0, 'In Progress' for 1..99, 'Completed' for 100.
C15_ProgressIsRoundedPercentage ==
  last.route \in {"GET", "PUT"} =>
    /\ last.overall_score =
         (IF last.total = 0 THEN 0
          ELSE (200 * last.completed + last.total) \div (2 * last.total))
    /\ last.overall_status =
         (IF last.overall_score = 0 THEN "Not Started"
          ELSE IF last.overall_score = 100 THEN "Completed" ELSE "In Progress")

\* The controls of audit a's frameworks whose definition has no question.
ZeroQuestionControls(a) == {c \in CatalogSubset(a) : controls[c].questionnaires = 0}

\* C16: after a read or a submission of audit a is answered 200, the persisted
\* count includes no control whose definition has zero questions, and an
\* audit created with such a control has not reached completed = total.
C16_ZeroQuestionControlNeverCounts ==
  \A a \in AuditIds :
    (Submitted(a) \/ ReadDone(a))
      => /\ audits[a].completed_controls_in_audit
              <= Cardinality((CatalogSubset(a) \cap StoredResponses(a)) \ ZeroQuestionControls(a))
         /\ ZeroQuestionControls(a) \cap created[a] # {}
              => audits[a].completed_controls_in_audit # audits[a].total_controls_in_audit

\* ------------------------------------------- a domain with many frameworks
\* A store whose frameworks collection holds MaxFrameworks frameworks of type
\* Cloud (document ids 1..MaxFrameworks), with one control in the first and one
\* in the last of them.
InitManyFrameworks ==
  /\ frameworks = [k \in 1..MaxFrameworks |-> [id |-> k, type |-> "Cloud"]]
  /\ controls = [c \in ControlIds |->
                   [exists |-> TRUE,
                    framework_id |-> IF c = ControlOrder[1] THEN 1 ELSE MaxFrameworks,
                    questionnaires |-> MaxQuestions]]
  /\ audits = [a \in AuditIds |-> NoDoc]
  /\ responses = [a \in AuditIds |-> [c \in ControlIds |-> NoDoc]]
  /\ clock = 0
  /\ req = [p \in Procs |-> Idle]
  /\ last = NoRequest
  /\ created = [a \in AuditIds |-> {}]
  /\ quiesced = [a \in AuditIds |-> FALSE]

\* Every route that queries controls by framework_id, one request at a time.
NextManyFrameworks ==
  \/ \E type \in DomainTypes, ok \in BOOLEAN : ListControls(type, ok)
  \/ \E body \in AuditBodies : CreateAuditStart("r1", body)
  \/ CreateAuditQueryChunk("r1")
  \/ CreateAuditAdd("r1")
  \/ CreateAuditCommit("r1")
  \/ StoreFail("r1")
  \/ \E a \in AuditIds, ok \in BOOLEAN : GetAudit(a, ok)
  \/ \E a \in AuditIds, body \in CompletingBodies, ok \in BOOLEAN : PutResponses(a, body, ok)
  \/ \E a \in AuditIds, ok \in BOOLEAN : PdfReport(a, ok)
  \/ \E a \in AuditIds, ok \in BOOLEAN : XlsxChecklist(a, ok)

SpecManyFrameworks == InitManyFrameworks /\ [][NextManyFrameworks]_vars

\* The controls of the frameworks of a domain type.
ControlsOfType(type) ==
  {c \in ControlIds :
     controls[c].exists /\ controls[c].framework_id \in SeqRange(FrameworksOfType(type))}

\* C17: every 'in' query on controls.framework_id carries at most 10 framework
\* ids: the chunk a loop is about to query, and the query of the
\* controls-by-type listing, which (the store not failing otherwise) answers
\* 200 with the controls of all the frameworks of the type.
C17_QueriesCarryAtMostTen ==
  /\ \A p \in Procs :
       (Busy(p) /\ req[p].pc \in {"create_controls", "get_controls", "put_controls"})
         => Len(Chunk(req[p].frameworkIds, req[p].i)) <= InQueryLimit
  /\ (last.op = "LIST" /\ last.ret # NoDoc)
       => /\ last.ret.asked <= InQueryLimit
          /\ last.code = 200
          /\ SeqRange(last.ret.controls) = ControlsOfType(last.audit)

\* Creation bodies lacking one of the required fields.
InvalidAuditBodies ==
  {b \in AuditBodies : \/ ~Truthy(b.title) \/ ~Truthy(b.domain_type)
                       \/ ~Truthy(b.userId) \/ ~Truthy(b.client_company_name)}

\* C18: a creation without title, domain_type, userId or client_company_name,
\* and a submission without control_id or with a question_responses that is
\* not an array, are answered 400 and are over in that step, with no audit and
\* no response (nor any other document) created or changed.
C18_RejectedRequestsMutateNothing ==
  [][/\ \A body \in InvalidAuditBodies :
          CreateAuditStart("r1", body)
            => /\ last' # NoRequest /\ last'.code = 400 /\ ~Busy("r1")'
               /\ UNCHANGED <<audits, responses, controls, frameworks>>
     /\ \A a \in AuditIds, body \in InvalidBodies, ok \in BOOLEAN :
          PutResponses(a, body, ok)
            => /\ last'.code = 400
               /\ UNCHANGED <<audits, responses, controls, frameworks>>]_vars

C18_Witness ==
  \E a \in AuditIds :
    /\ last.op = "PUT" /\ last.code = 400 /\ last.audit = a
    /\ audits[a].exists /\ StoredResponses(a) # {}

\* C19: reading the response of a control with no stored response under the
\* audit (the store not failing) is answered 200 with compliance_status
\* 'Not Answered' and one question_responses entry per question of the
\* control's definition, each null, and no document is created or changed.
C19_AbsentResponseReadsAsNotAnswered ==
  [][\A a \in AuditIds, c \in ControlIds :
       (GetResponse(a, c, TRUE) /\ ~responses[a][c].exists)
         => /\ last'.code = 200
            /\ last'.ret.data.control_id = c
            /\ last'.ret.data.compliance_status = "Not Answered"
            /\ Len(last'.ret.data.question_responses) =
                 (IF controls[c].exists THEN controls[c].questionnaires ELSE 0)
            /\ \A k \in 1..Len(last'.ret.data.question_responses) :
                 last'.ret.data.question_responses[k] = Null
            /\ UNCHANGED <<audits, responses, controls, frameworks>>]_vars

C19_Witness ==
  \E a \in AuditIds :
    /\ last.op = "RESPONSE" /\ last.code = 200 /\ last.audit = a
    /\ ~last.ret.found
    /\ ~responses[a][last.ret.control].exists
    /\ audits[a].exists
    /\ Len(last.ret.data.question_responses) > 0

\* C20: the per-control list of a PDF report answered 200 holds one entry for
\* every control of the audit's frameworks that has a stored response, in
\* control-id order (so it is not empty when such a control exists).
C20_PdfListsAnsweredControls ==
  \A a \in AuditIds :
    (last.op = "PDF" /\ last.code = 200 /\ last.audit = a)
      => last.ret.controls = SortById(CatalogSubset(a) \cap StoredResponses(a))

\* --------------------------------------- the progress of large audits
\* The computation of lines 326-327 and 478-479 for every total from 1 to
\* MaxLargeTotal and every completed count up to the total.
InitLargeTotals ==
  /\ frameworks = <<[id |-> "F1", type |-> "Cloud"], [id |-> "F2", type |-> "ISMS"]>>
  /\ controls = [c \in ControlIds |-> NoDoc]
  /\ audits = [a \in AuditIds |-> NoDoc]
  /\ responses = [a \in AuditIds |-> [c \in ControlIds |-> NoDoc]]
  /\ clock = 0
  /\ req = [p \in Procs |-> Idle]
  /\ created = [a \in AuditIds |-> {}]
  /\ quiesced = [a \in AuditIds |-> FALSE]
  /\ \E total \in 1..MaxLargeTotal :
       \E completed \in 0..total : last = ProgressOperands(completed, total)

SpecLargeTotals == InitLargeTotals /\ [][NextProgress]_vars

\* C21: for every total >= 1 and every completed count up to it, the status
\* computed by either route is 'Completed' only when completed = total and
\* 'Not Started' only when completed = 0.
C21_StatusEndsOnlyAtExtremes ==
  last.route \in {"GET", "PUT"} =>
    /\ last.overall_status = "Completed" => last.completed = last.total
    /\ last.overall_status = "Not Started" => last.completed = 0

\* The request in slot p is a submission in flight and the step is one of its own.
SubmissionStep(p) ==
  /\ Busy(p) /\ req[p].op = "PUT"
  /\ req'[p].pc # req[p].pc

\* C22: every step of a submission in flight, whatever the other slot does
\* between its steps, either leaves the audits and the responses as they were
\* (every await before the commit, and a store call that rejects, the commit
\* included) or makes both writes of its batch visible at once: the merged
\* response and the audit summary with a fresh updated_at.
C22_SubmissionBatchIsAtomic ==
  [][\A p \in Procs :
       SubmissionStep(p) =>
         LET a == req[p].audit
             c == req[p].body.control_id
         IN \/ /\ UNCHANGED <<audits, responses>>
               /\ req'[p].pc = "idle" => last'.code = 500
            \/ /\ req'[p].pc = "idle" /\ last'.code = 200
               /\ responses' = [responses EXCEPT ![a][c] =
                                  MergeSet(@, ResponseFields(req[p].body))]
               /\ audits'[a] # audits[a]
               /\ audits'[a].updated_at = clock
               /\ \A b \in AuditIds \ {a} : audits'[b] = audits[b]]_vars

\* A submission was committed while the other slot had a request in flight,
\* and its response and its summary update are both in the store.
C22_Witness ==
  \E a \in AuditIds, c \in ControlIds :
    /\ Submitted(a)
    /\ \E q \in Procs : Busy(q)
    /\ responses[a][c].compliance_status = "Yes"
    /\ audits[a].updated_at = clock - 1
    /\ audits[a].updated_at > 0

\* ------------------------------ creation, reads and submissions interleaved
\* A seeded catalog and no audit yet: audits are created, read and submitted
\* to in both slots, one await per step.
InitInterleaved ==
  /\ frameworks = <<[id |-> "F1", type |-> "Cloud"], [id |-> "F2", type |-> "ISMS"]>>
  /\ controls = [c \in ControlIds |-> SeededControl(c)]
  /\ audits = [a \in AuditIds |-> NoDoc]
  /\ responses = [a \in AuditIds |-> [c \in ControlIds |-> NoDoc]]
  /\ clock = 0
  /\ req = [p \in Procs |-> Idle]
  /\ last = NoRequest
  /\ created = [a \in AuditIds |-> {}]
  /\ quiesced = [a \in AuditIds |-> FALSE]

NextInterleaved ==
  \/ NextConcurrent
  \/ \E p \in Procs :
       \/ \E body \in AuditBodies : CreateAuditStart(p, body)
       \/ CreateAuditQueryChunk(p)
       \/ CreateAuditAdd(p)
       \/ CreateAuditCommit(p)

SpecInterleaved == InitInterleaved /\ [][NextInterleaved]_vars

\* C23: in every reachable state the persisted status of every audit is the
\* one its persisted score calls for ('Completed' exactly for 100, 'Not
\* Started' exactly for 0, 'In Progress' otherwise), and every step that
\* changes one of the three summary fields of an audit is a single write of
\* all of them: the document it leaves carries the writer's timestamp and a
\* status that matches its score.
C23_StatusMatchesScore ==
  /\ [](\A a \in AuditIds :
          audits[a].exists =>
            /\ audits[a].overall_status = "Completed" <=> audits[a].overall_score = 100
            /\ audits[a].overall_status = "Not Started" <=> audits[a].overall_score = 0
            /\ audits[a].overall_status = "In Progress"
                 <=> audits[a].overall_score \notin {0, 100})
  /\ [][\A a \in AuditIds :
          (audits[a].exists /\ Summary(audits'[a]) # Summary(audits[a]))
            => /\ audits'[a].updated_at = clock
               /\ audits'[a].overall_status = OverallStatus(audits'[a].overall_score)]_vars

\* An audit whose status and score were rewritten to 'In Progress' and a
\* partial score, then to 'Completed' and 100, while the other slot had a
\* request in flight.
C23_Witness ==
  \E a \in AuditIds :
    /\ audits[a].exists
    /\ audits[a].overall_status = "Completed" /\ audits[a].overall_score = 100
    /\ \E q \in Procs : Busy(q)
    /\ last.op \in {"GET", "PUT"} /\ last.code = 200 /\ last.wrote
====
